---- MODULE Spec2Model ----
(***************************************************************************)
(* State-machine model of the multiplayer core of bulletverse.io           *)
(* (src/play.py): GameServer (accept/tick thread, one handler thread per    *)
(* connection, the shared game_state) and the byte-stream connections of    *)
(* its clients.                                                             *)
(*                                                                          *)
(* Geometry.  Positions are integer pixel pairs.  An angle is kept as its   *)
(* unit vector <<cos, sin>>, restricted to the four axis directions, for    *)
(* which the code's float arithmetic is exact on integers.  math.hypot(d)   *)
(* < r is computed as dx*dx + dy*dy < r*r.  The random nudges of an enemy's  *)
(* angle (play.py:796-797, 799-816) do not leave the enemy's axis.          *)
(*                                                                          *)
(* Randomness and time.time() are nondeterministic choices from small sets. *)
(* Clients act through the server's reads alone: a connection, an           *)
(* identifier, an update or an end of stream is drawn where the server      *)
(* reads it (accept, recv).                                                 *)
(***************************************************************************)
EXTENDS Integers, Sequences, FiniteSets, TLC

VARIABLES
    players,            \* game_state["players"]: dict in insertion order, as a sequence of records with key "id"
    enemies,            \* game_state["enemies"]
    bullets,            \* game_state["bullets"]
    powerups,           \* game_state["powerups"]
    clients,            \* self.clients: set of <<player_id, connection>> (a dict: one entry per player_id)
    difficulty,         \* self.difficulty ("normal", or what the host's UI assigns, play.py:2483)
    last_powerup_time,  \* self.last_powerup_time
    running,            \* self.running
    now,                \* the clock read by time.time(), in seconds
    ticks,              \* completed passes of the run loop
    rpc,                \* position of the run thread
    rconn,              \* connection the run thread is accepting (0: none)
    bi,                 \* index in game_state["bullets"] of the current element of the copy (play.py:858)
    bleft,              \* elements of that copy still to visit
    iterSize,           \* size recorded by a live iterator over players held by the run thread (-1: none)
    sent,               \* updates the server has read, per connection
    ssock,              \* server end of each connection
    hpc,                \* position of each handler thread
    hid,                \* player_id argument of each handler thread
    ev,                 \* what the last step of the run thread did (history variable)
    nextPid,            \* next history tag for a powerup
    pwlog,              \* history: how each powerup left game_state["powerups"]
    merged,             \* history: number of new bullets in the update a handler is answering
    closing,            \* the thread that calls GameServer.close(): position, dict iterator
    lsock,              \* self.socket of the server, the listening socket
    nc,                 \* the fields of one NetworkClient and the positions of its threads
    link,               \* that client's connection: bytes in flight each way, and its peer
    game                \* the Game object of that client: its local player state

vars == <<players, enemies, bullets, powerups, clients, difficulty,
          last_powerup_time, running, now, ticks, rpc, rconn, bi, bleft,
          iterSize, sent, ssock, hpc, hid, ev,
          nextPid, pwlog, merged, closing, lsock, nc, link, game>>

world == <<players, enemies, bullets, powerups>>
net == <<sent, ssock, hpc, hid, clients>>
tickpos == <<rpc, rconn, bi, bleft, iterSize>>
shut == <<closing, lsock>>
cli == <<nc, link, game>>
aux == <<merged, shut, cli>>

----------------------------------------------------------------------------
\* Bounds of the model

MaxTicks == 2
NetMaxTicks == 1
MaxMsgs == 1
MaxTime == 62
WIDTH == 120
HEIGHT == 120

\* Program constants

BULLET_SPEED == 7
ENEMY_BULLET_SPEED == 5
ENEMY_FIRE_RATE == 80
NUM_ENEMIES == 6
EnemyMargin == 20
FireRange == 400
PlayerRadius == 20
PickupRadius == 25
PowerupInterval == 10
PowerupTTL == 30
MaxPowerups == 5
BaseKillXp == 10
XpPowerup == 30
HealAmount == 25
DefaultMaxHealth == 100
ShieldPowerup == 30
EnemySize == 20

Difficulties == {"normal", "hard"}

\* DIFFICULTY_SETTINGS; xp_multiplier10 is xp_multiplier in tenths (1.0, 0.8),
\* enemy_speed a draw of enemy_speed * uniform(0.8, 1.2) that is an integer
\* (2 * 1.0, 2.5 * 1.2).
DIFFICULTY_SETTINGS ==
    [normal |-> [enemy_speed |-> 2, enemy_health |-> 30, enemy_damage |-> 10, xp_multiplier10 |-> 10],
     hard   |-> [enemy_speed |-> 3, enemy_health |-> 40, enemy_damage |-> 15, xp_multiplier10 |-> 8]]

PowerupTypes == {"health", "shield", "speed", "damage", "xp"}

Conns == {1, 2}
\* Identifiers a client may present in the handshake (any decodable bytes).
Ids == {"p1", "enemy"}

Right == <<1, 0>>
Left == <<-1, 0>>
Up == <<0, -1>>
Down == <<0, 1>>

----------------------------------------------------------------------------
\* Helpers

Add(p, d, s) == <<p[1] + s * d[1], p[2] + s * d[2]>>

Dist2(a, b) == (a[1] - b[1]) * (a[1] - b[1]) + (a[2] - b[2]) * (a[2] - b[2])

\* math.hypot(a - b) < r
Within(a, b, r) == Dist2(a, b) < r * r

Abs(x) == IF x < 0 THEN -x ELSE x

Min(a, b) == IF a < b THEN a ELSE b

\* math.atan2(to - from) on the four-direction grid: the axis of the larger component
Toward(from, to) ==
    LET dx == to[1] - from[1]
        dy == to[2] - from[2]
    IN  IF Abs(dx) >= Abs(dy)
        THEN (IF dx >= 0 THEN Right ELSE Left)
        ELSE (IF dy >= 0 THEN Down ELSE Up)

RemoveAt(s, i) == [k \in 1..(Len(s) - 1) |-> IF k < i THEN s[k] ELSE s[k + 1]]

\* int(x * 1.5) for an integer x >= 0
IntTimes15(x) == (3 * x) \div 2

OutOfField(p) == p[1] < 0 \/ p[1] > WIDTH \/ p[2] < 0 \/ p[2] > HEIGHT

PlayerIds(pls) == {pls[k].id : k \in 1..Len(pls)}

PIndex(pls, id) == CHOOSE k \in 1..Len(pls) : pls[k].id = id

\* first index at which flags (the loop's test, per element) is true, 0 if
\* none: "for x in s: if test: ...; break"
FirstIndex(flags) ==
    IF \E k \in 1..Len(flags) : flags[k]
    THEN CHOOSE k \in 1..Len(flags) : flags[k] /\ \A j \in 1..(k - 1) : ~flags[j]
    ELSE 0

----------------------------------------------------------------------------
\* Entities

\* Draws of spawn_enemy's random position, angle and fire timer
SpawnChoices ==
    { [pos |-> <<50, 50>>, dir |-> Right, timer |-> 1],
      [pos |-> <<70, 70>>, dir |-> Down, timer |-> ENEMY_FIRE_RATE] }

\* spawn_enemy(difficulty); "type" and "max_health" are never read by the server
spawn_enemy(d, c) ==
    [pos |-> c.pos, dir |-> c.dir,
     speed |-> DIFFICULTY_SETTINGS[d].enemy_speed,
     health |-> DIFFICULTY_SETTINGS[d].enemy_health,
     fire_timer |-> c.timer, size |-> EnemySize]

\* The enemy list GameServer.__init__ builds, for one draw of the random values:
\* two enemies about to fire, the others not
InitEnemies ==
    LET a == CHOOSE c \in SpawnChoices : c.timer = 1
        b == CHOOSE c \in SpawnChoices : c.timer # 1
    IN  { [k \in 1..NUM_ENEMIES |-> spawn_enemy("normal", IF k <= 2 THEN a ELSE b)] }

\* closest player: first minimum of the distance in iteration order (strict <); 0 if no player
Closest(pls, pos) ==
    IF Len(pls) = 0 THEN 0
    ELSE CHOOSE k \in 1..Len(pls) :
            /\ \A j \in 1..Len(pls) : Dist2(pls[k].pos, pos) <= Dist2(pls[j].pos, pos)
            /\ \A j \in 1..(k - 1) : Dist2(pls[j].pos, pos) > Dist2(pls[k].pos, pos)

\* One iteration of the enemy loop for enemy e: [enemy, fired], fired a sequence of 0 or 1 bullets
EnemyStep(e, pls, d) ==
    LET p1 == Add(e.pos, e.dir, e.speed)
        dx == IF p1[1] <= EnemyMargin \/ p1[1] >= WIDTH - EnemyMargin THEN -e.dir[1] ELSE e.dir[1]
        dy == IF p1[2] <= EnemyMargin \/ p1[2] >= HEIGHT - EnemyMargin THEN -e.dir[2] ELSE e.dir[2]
        t1 == e.fire_timer - 1
        fires == t1 <= 0
        c == Closest(pls, p1)
        shoot == fires /\ c # 0 /\ Within(pls[c].pos, p1, FireRange)
    IN  [enemy |-> [e EXCEPT !.pos = p1, !.dir = <<dx, dy>>,
                             !.fire_timer = IF fires THEN ENEMY_FIRE_RATE ELSE t1],
         fired |-> IF shoot
                   THEN << [pos |-> p1, dir |-> Toward(p1, pls[c].pos), penetration |-> 1,
                            damage |-> DIFFICULTY_SETTINGS[d].enemy_damage, owner |-> "enemy",
                            from |-> "server", upd |-> 0, last |-> 0] >>
                   ELSE << >>]

\* The enemy loop (play.py:787-856) from enemy k on: [enemies, fired]
RECURSIVE EnemyLoop(_, _, _, _)
EnemyLoop(ens, k, pls, d) ==
    IF k > Len(ens) THEN [enemies |-> ens, fired |-> << >>]
    ELSE LET r == EnemyStep(ens[k], pls, d)
             rest == EnemyLoop([ens EXCEPT ![k] = r.enemy], k + 1, pls, d)
         IN  [rest EXCEPT !.fired = r.fired \o rest.fired]

\* DamagePlayer without the carry-over: damage beyond the shield is lost
DamagePlayerNoCarry(p, dmg) ==
    IF p.shield > 0
    THEN [p EXCEPT !.shield = IF p.shield - dmg < 0 THEN 0 ELSE p.shield - dmg]
    ELSE [p EXCEPT !.health = p.health - dmg]

\* Enemy bullet against a player record (play.py:929-935)
DamagePlayer(p, dmg) ==
    IF p.shield > 0
    THEN LET s == p.shield - dmg
         IN  IF s < 0 THEN [p EXCEPT !.health = p.health + s, !.shield = 0]
             ELSE [p EXCEPT !.shield = s]
    ELSE [p EXCEPT !.health = p.health - dmg]

\* LevelCheck applied a second time to its own result
LevelCheckTwice(p) ==
    LET Once(r) == IF r.xp >= r.xp_to_next_level
                   THEN [r EXCEPT !.level = r.level + 1,
                                  !.xp = r.xp - r.xp_to_next_level,
                                  !.xp_to_next_level = IntTimes15(r.xp_to_next_level),
                                  !.upgrade_points = r.upgrade_points + 1]
                   ELSE r
    IN  Once(Once(p))

\* The level-up check that follows an XP grant (play.py:913-921, 967-975)
LevelCheck(p) ==
    IF p.xp >= p.xp_to_next_level
    THEN [p EXCEPT !.level = p.level + 1,
                   !.xp = p.xp - p.xp_to_next_level,
                   !.xp_to_next_level = IntTimes15(p.xp_to_next_level),
                   !.upgrade_points = p.upgrade_points + 1]
    ELSE p

\* player["xp"] += xp_gain, then the check
GrantXp(p, gain) == LevelCheck([p EXCEPT !.xp = p.xp + gain])

\* Effect of a powerup on a player record (play.py:945-975); the client's record
\* carries no "max_health", so player.get("max_health", 100) is 100.  The timed
\* effects add keys to the record: extra holds their names.
ApplyPowerup(p, type) ==
    CASE type = "health" -> [p EXCEPT !.health = Min(p.health + HealAmount, DefaultMaxHealth)]
      [] type = "shield" -> [p EXCEPT !.shield = ShieldPowerup,
                                      !.extra = p.extra \cup {"shield_end_time"}]
      [] type = "speed"  -> [p EXCEPT !.extra = p.extra \cup {"movement_speed_boost", "speed_end_time"}]
      [] type = "damage" -> [p EXCEPT !.extra = p.extra \cup {"damage_boost", "damage_end_time"}]
      [] type = "xp"     -> GrantXp(p, XpPowerup)

\* PickupTargets without the break: every player within the pickup radius
PickupTargetsAll(pls, pw) ==
    SelectSeq([k \in 1..Len(pls) |-> k], LAMBDA k : Within(pw.pos, pls[k].pos, PickupRadius))

\* Players (indices) a powerup is applied to: the first one within the pickup radius, then break
PickupTargets(pls, pw) ==
    LET k == FirstIndex([j \in 1..Len(pls) |-> Within(pw.pos, pls[j].pos, PickupRadius)])
    IN  IF k = 0 THEN << >> ELSE <<k>>

RECURSIVE ApplyTo(_, _, _)
ApplyTo(pls, ks, type) ==
    IF ks = << >> THEN pls
    ELSE ApplyTo([pls EXCEPT ![Head(ks)] = ApplyPowerup(pls[Head(ks)], type)], Tail(ks), type)

\* The powerup loop (play.py:941-978) over the copy pws[k..]: players after, powerups kept,
\* and the pickups made, in order
RECURSIVE Pickups(_, _, _)
Pickups(pls, pws, k) ==
    IF k > Len(pws) THEN [players |-> pls, kept |-> << >>, picks |-> << >>]
    ELSE LET ks == PickupTargets(pls, pws[k])
             pls1 == ApplyTo(pls, ks, pws[k].type)
             rest == Pickups(pls1, pws, k + 1)
         IN  IF ks = << >>
             THEN [rest EXCEPT !.kept = <<pws[k]>> \o rest.kept]
             ELSE [rest EXCEPT !.picks =
                       << [pid |-> pws[k].pid, type |-> pws[k].type, pos |-> pws[k].pos,
                           by |-> [j \in 1..Len(ks) |-> pls[ks[j]].id],
                           pre |-> pls, post |-> pls1] >> \o rest.picks]

----------------------------------------------------------------------------
\* Client updates (the pickled player_data of Game.update_multiplayer).  A
\* new bullet is the list [x, y, angle, penetration, damage].  The server
\* stores whatever record arrives (play.py:715-717), so the set holds records
\* of the game's own client and records another program can send.  missing
\* holds the names of the keys the record lacks (the field of a lacking key
\* has a filler value that is never read).  The game's client sends health up
\* to its own max_health, which its "Health Max" upgrade raises in steps of
\* 10 (play.py:1989, 2347, 2957).

Near == <<60, 50>>
Far == <<100, 100>>

Payloads ==
    { [pos |-> Near, health |-> 110, shield |-> 5, level |-> 1, xp |-> 95,
       xp_to_next_level |-> 100, upgrade_points |-> 0, missing |-> {},
       new_bullets |-> << <<40, 50, Right, 1, 30>> >>],
      [pos |-> Near, health |-> 50, shield |-> 30, level |-> 2, xp |-> 40,
       xp_to_next_level |-> 15, upgrade_points |-> 1, missing |-> {},
       new_bullets |-> << <<40, 50, Right, 2, 30>>, <<118, 50, Right, 1, 10>> >>],
      [pos |-> Far, health |-> 100, shield |-> 0, level |-> 1, xp |-> 0,
       xp_to_next_level |-> 100, upgrade_points |-> 0, missing |-> {},
       new_bullets |-> << >>],
      [pos |-> Near, health |-> 90, shield |-> -5, level |-> 1, xp |-> 0,
       xp_to_next_level |-> 100, upgrade_points |-> 0, missing |-> {},
       new_bullets |-> << <<40, 50, Right, -1, 10>> >>] }

\* Malformed updates: a decodable record without the key "pos", and a record
\* whose second bullet has fewer than 5 elements
NoPosRecords ==
    { [pos |-> <<0, 0>>, health |-> 100, shield |-> 0, level |-> 1, xp |-> 0,
       xp_to_next_level |-> 100, upgrade_points |-> 0, missing |-> {"pos"},
       new_bullets |-> << >>] }

ShortBulletRecords ==
    { [pos |-> Far, health |-> 100, shield |-> 0, level |-> 1, xp |-> 0,
       xp_to_next_level |-> 100, upgrade_points |-> 0, missing |-> {},
       new_bullets |-> << <<40, 50, Right, 1, 30>>, <<40, 50, Right, 1>> >>] }

\* An update of a player far from the enemies with six new bullets, each one
\* about to reach the enemies around (70, 70) with a damage that kills
DropPayloads ==
    { [pos |-> Far, health |-> 100, shield |-> 0, level |-> 1, xp |-> 0,
       xp_to_next_level |-> 100, upgrade_points |-> 0, missing |-> {},
       new_bullets |-> [k \in 1..6 |-> <<63, 72, Right, 1, 40>>]] }

\* Draws of spawn_powerup's random position
PowerupSpawnPos == { <<60, 60>> }

\* Clock advance between two readings of time.time() by update_game_state
TimeSteps == {1, 31}

NoEv == [kind |-> "none"]

----------------------------------------------------------------------------
\* World State operations of the run thread

\* spawn_powerup (play.py:759-773)
spawn_powerup(pws, pos, type, t, pid) ==
    IF Len(pws) >= MaxPowerups THEN pws
    ELSE Append(pws, [pos |-> pos, type |-> type, creation_time |-> t, pid |-> pid])

Expired(pw, t) == t - pw.creation_time > PowerupTTL

\* play.py:783-785
ExpirePowerups(pws, t) == SelectSeq(pws, LAMBDA pw : ~Expired(pw, t))

\* Bullet against the enemies (play.py:869-923): the enemy hit, 0 if none
\* EnemyHit without the break: the last enemy of the list within range
EnemyHitLast(b, ens) ==
    LET inRange == {k \in 1..Len(ens) : Within(b.pos, ens[k].pos, ens[k].size)}
    IN  IF b.owner # "enemy" /\ inRange # {}
        THEN CHOOSE k \in inRange : \A j \in inRange : j <= k
        ELSE 0

EnemyHit(b, ens) ==
    IF b.owner # "enemy"
    THEN FirstIndex([k \in 1..Len(ens) |-> Within(b.pos, ens[k].pos, ens[k].size)])
    ELSE 0

\* Bullet against the players (play.py:925-939): the player hit, 0 if none
PlayerHit(b, pls) ==
    IF b.owner = "enemy"
    THEN FirstIndex([k \in 1..Len(pls) |-> Within(b.pos, pls[k].pos, PlayerRadius)])
    ELSE 0

\* play.py:877: the bullet is removed after a hit
Spent(b) == b.penetration <= 0

\* KillXp without the difficulty's multiplier
KillXpFlat(d) == BaseKillXp

\* xp_gain = 10 * xp_multiplier (play.py:901)
KillXp(d) == (BaseKillXp * DIFFICULTY_SETTINGS[d].xp_multiplier10) \div 10

\* XP for a kill (play.py:898-921)
KillReward(pls, owner, d) ==
    IF owner \in PlayerIds(pls)
    THEN [pls EXCEPT ![PIndex(pls, owner)] =
              GrantXp(pls[PIndex(pls, owner)], KillXp(d))]
    ELSE pls

\* ReplaceEnemy without the respawn
ReplaceEnemyNoSpawn(ens, k, fresh) == RemoveAt(ens, k)

\* The enemy list after enemy k died (play.py:894-896)
ReplaceEnemy(ens, k, fresh) == Append(RemoveAt(ens, k), fresh)

\* History tag "last" of the bullets: the place in the list of the enemy a
\* bullet hit at its last step, 0 if it hit none or the enemy died.  When the
\* enemy at place k dies the enemies behind it move up one place.
Relabel(bs, k) ==
    [j \in 1..Len(bs) |->
        [bs[j] EXCEPT !.last = IF @ = k THEN 0 ELSE IF @ > k THEN @ - 1 ELSE @]]

\* One iteration of the bullet loop (play.py:858-978) for bullet b0.
\* drop: "none" or the type of the powerup dropped by a kill; fresh: the respawned enemy
BulletStep(b0, pls, ens, pws, d, drop, fresh, t, pid) ==
    LET speed == IF b0.owner = "enemy" THEN ENEMY_BULLET_SPEED ELSE BULLET_SPEED
        b1 == [b0 EXCEPT !.pos = Add(b0.pos, b0.dir, speed)]
        out == OutOfField(b1.pos)
        k == IF out THEN 0 ELSE EnemyHit(b1, ens)
        e1 == IF k # 0 THEN [ens[k] EXCEPT !.health = ens[k].health - b1.damage] ELSE NoEv
        kill == k # 0 /\ e1.health <= 0
        b2 == IF k # 0 THEN [b1 EXCEPT !.penetration = b1.penetration - 1,
                                       !.last = IF kill THEN 0 ELSE k]
              ELSE [b1 EXCEPT !.last = 0]
        v == IF out THEN 0 ELSE PlayerHit(b1, pls)
        ens1 == IF kill THEN ReplaceEnemy(ens, k, fresh)
                ELSE IF k # 0 THEN [ens EXCEPT ![k] = e1] ELSE ens
        pws1 == IF kill /\ drop # "none"
                THEN Append(pws, [pos |-> ens[k].pos, type |-> drop, creation_time |-> t, pid |-> pid])
                ELSE pws
        pls1 == IF kill THEN KillReward(pls, b1.owner, d)
                ELSE IF v # 0 THEN [pls EXCEPT ![v] = DamagePlayer(pls[v], b1.damage)]
                ELSE pls
        pk == IF out THEN [players |-> pls, kept |-> pws, picks |-> << >>]
              ELSE Pickups(pls1, pws1, 1)
    IN  [bullet |-> b2,
         removed |-> out \/ (k # 0 /\ Spent(b2)) \/ v # 0,
         out |-> out, hit |-> k, kill |-> kill, victim |-> v,
         dropped |-> kill /\ drop # "none",
         enemies |-> ens1, plc |-> pls1,
         players |-> pk.players, powerups |-> pk.kept, picks |-> pk.picks]

----------------------------------------------------------------------------
\* Dict operations on self.clients (a function from player_id to connection)

DictSet(f, k, v) == [x \in DOMAIN f \cup {k} |-> IF x = k THEN v ELSE f[x]]

DictDel(f, k) == [x \in DOMAIN f \ {k} |-> f[x]]

\* SetPlayer as an update of the stored record that keeps the health it has
SetPlayerFieldwise(pls, id, data) ==
    LET old == IF id \in PlayerIds(pls) THEN pls[PIndex(pls, id)].health ELSE data.health
        rec == [id |-> id, pos |-> data.pos, health |-> old, shield |-> data.shield,
                level |-> data.level, xp |-> data.xp,
                xp_to_next_level |-> data.xp_to_next_level,
                upgrade_points |-> data.upgrade_points,
                new_bullets |-> data.new_bullets, missing |-> data.missing, extra |-> {}]
    IN  IF id \in PlayerIds(pls) THEN [pls EXCEPT ![PIndex(pls, id)] = rec]
        ELSE Append(pls, rec)

\* self.game_state["players"][player_id] = player_data: a present key keeps its place
SetPlayer(pls, id, data) ==
    LET rec == [id |-> id, pos |-> data.pos, health |-> data.health, shield |-> data.shield,
                level |-> data.level, xp |-> data.xp,
                xp_to_next_level |-> data.xp_to_next_level,
                upgrade_points |-> data.upgrade_points,
                new_bullets |-> data.new_bullets, missing |-> data.missing, extra |-> {}]
    IN  IF id \in PlayerIds(pls) THEN [pls EXCEPT ![PIndex(pls, id)] = rec]
        ELSE Append(pls, rec)

\* del self.game_state["players"][player_id]
DelPlayer(pls, id) == SelectSeq(pls, LAMBDA p : p.id # id)

\* The bullet records appended for an update (play.py:719-733); "from" is a
\* history tag (who created the bullet), not a key of the code's dict
NewBullets(id, data) ==
    [k \in 1..Len(data.new_bullets) |->
        [pos |-> <<data.new_bullets[k][1], data.new_bullets[k][2]>>,
         dir |-> data.new_bullets[k][3],
         penetration |-> data.new_bullets[k][4],
         damage |-> data.new_bullets[k][5],
         owner |-> id, from |-> "client", upd |-> 0, last |-> 0]]

\* History tag: the bullets bs were appended for the update of connection c
FromUpdate(bs, c) == [k \in 1..Len(bs) |-> [bs[k] EXCEPT !.upd = c]]

\* No thread is in GameServer.close()
NotClosing == [pc |-> "idle", size |-> 0, seen |-> {}, calls |-> 0]

\* NetworkClient.__init__ (play.py:560-574), and no connection made
\* History: stamps, the send_time the client put on each of its updates;
\* connects, frames and closes, the calls of connect(), of send_data() and of
\* close() so far; decoded, the last value pickle.loads returned in the
\* receive loop.  old_thread is the receive thread of the connection before
\* this one: "recv" while it is in recv on that connection's closed socket.
NoClient == [connected |-> FALSE, socket |-> "none", game_state |-> [kind |-> "empty"],
             ping |-> 0, receive_thread |-> "none", stamps |-> << >>,
             connects |-> 0, frames |-> 0, decoded |-> [kind |-> "empty"],
             closes |-> 0, old_thread |-> "none"]

\* up, down: what has been sent and not yet read, each way; peer: the
\* position of the server for this connection; taken: history, the messages
\* the server has read on it; updates, answers: history, the updates the
\* client has sent on it and the snapshots answering an update that the
\* client has read
NoLink == [up |-> << >>, down |-> << >>, peer |-> "none", taken |-> 0,
           updates |-> 0, answers |-> 0]

----------------------------------------------------------------------------
\* play.py:1662-1669, 1682, 1691: the Game before it joins a server.  frames,
\* sent_data and applied are history: the frames run, the update last handed
\* to send_data, and the powerups apply_powerup was called for
NoGame ==
    [multiplayer_mode |-> FALSE, player_pos |-> <<WIDTH \div 2, HEIGHT \div 2>>,
     player_health |-> 100, player_shield |-> 0, level |-> 1, xp |-> 0,
     xp_to_next_level |-> 100, upgrade_points |-> 3, max_health |-> 100,
     shield_end |-> 0, speed_end |-> 0, damage_end |-> 0,
     new_bullets |-> << >>, frames |-> 0, sent_data |-> [kind |-> "none"],
     applied |-> << >>]

Init ==
    /\ players = << >>
    /\ enemies \in InitEnemies
    /\ bullets = << >>
    /\ powerups = << >>
    /\ clients = << >>
    /\ difficulty = "normal"
    /\ last_powerup_time = 0
    /\ running = TRUE
    /\ now = 0
    /\ ticks = 0
    /\ rpc = "accept"
    /\ rconn = 0
    /\ bi = 0
    /\ bleft = 0
    /\ iterSize = -1
    /\ sent = [c \in Conns |-> 0]
    /\ ssock = [c \in Conns |-> "none"]
    /\ hpc = [c \in Conns |-> "none"]
    /\ hid = [c \in Conns |-> ""]
    /\ ev = NoEv
    /\ nextPid = 1
    /\ pwlog = << >>
    /\ merged = [c \in Conns |-> 0]
    /\ closing = NotClosing
    /\ lsock = "open"
    /\ nc = NoClient
    /\ link = NoLink
    /\ game = NoGame

----------------------------------------------------------------------------
\* GameServer.handle_client, one thread per accepted connection


\* play.py:711-738: an update is read and merged.  The update is drawn when
\* it is read: what a client sends reaches the server through recv alone.
\* sent counts the updates of the connection.
HandlerMergeUpTo(c, data, maxMsgs) ==
    /\ hpc[c] = "recv"
    /\ sent[c] < maxMsgs
    /\ sent' = [sent EXCEPT ![c] = sent[c] + 1]
    /\ players' = SetPlayer(players, hid[c], data)
    /\ bullets' = bullets \o FromUpdate(NewBullets(hid[c], data), c)
    /\ merged' = [merged EXCEPT ![c] = Len(data.new_bullets)]
    /\ hpc' = [hpc EXCEPT ![c] = "send"]
    /\ ev' = [kind |-> "merge", conn |-> c, id |-> hid[c], data |-> data,
              pl0 |-> players, bl0 |-> bullets]
    /\ UNCHANGED <<shut, cli, enemies, powerups, tickpos, ssock, hid, clients,
                   difficulty, last_powerup_time, running, now, ticks, nextPid, pwlog>>

HandlerMerge(c, data) == HandlerMergeUpTo(c, data, MaxMsgs)

\* play.py:749-750: if player_id in self.clients: del self.clients[player_id]
Unregister(cl, id) == IF id \in DOMAIN cl THEN DictDel(cl, id) ELSE cl

\* play.py:751-752
RemovePlayer(pls, id) == IF id \in PlayerIds(pls) THEN DelPlayer(pls, id) ELSE pls

\* play.py:707-709: the initial snapshot and the loop test; a send to a
\* connection the peer has closed is buffered, the failure shows at the next recv
HandlerInit(c) ==
    /\ hpc[c] = "init"
    /\ ev' = NoEv
    /\ IF running
       THEN /\ hpc' = [hpc EXCEPT ![c] = "recv"]
            /\ UNCHANGED <<players, clients, ssock>>
       ELSE /\ hpc' = [hpc EXCEPT ![c] = "done"]
            /\ clients' = Unregister(clients, hid[c])
            /\ players' = RemovePlayer(players, hid[c])
            /\ ssock' = [ssock EXCEPT ![c] = "closed"]
    /\ UNCHANGED <<aux, enemies, bullets, powerups, tickpos, sent, hid,
                   difficulty, last_powerup_time, running, now, ticks, nextPid, pwlog>>

\* play.py:740, 709: client_socket.send(pickle.dumps(self.game_state)), the
\* snapshot of game_state as it is now, and the loop test; with running false
\* the loop ends and the finally block (play.py:748-757) runs
HandlerSend(c) ==
    /\ hpc[c] = "send"
    /\ ev' = [kind |-> "send", conn |-> c, n |-> merged[c], snapshot |-> bullets,
              rpc |-> rpc, bleft |-> bleft]
    /\ IF running
       THEN /\ hpc' = [hpc EXCEPT ![c] = "recv"]
            /\ UNCHANGED <<players, clients, ssock>>
       ELSE /\ hpc' = [hpc EXCEPT ![c] = "done"]
            /\ clients' = Unregister(clients, hid[c])
            /\ players' = RemovePlayer(players, hid[c])
            /\ ssock' = [ssock EXCEPT ![c] = "closed"]
    /\ UNCHANGED <<aux, enemies, bullets, powerups, tickpos, sent, hid,
                   difficulty, last_powerup_time, running, now, ticks, nextPid, pwlog>>

\* play.py:709-740: one pass of the handler's loop taken whole (recv, merge,
\* send, loop test).  The send changes nothing in game_state, so for what the
\* tick does to game_state the pass is HandlerMerge followed by HandlerSend.
HandlerPass(c, data) ==
    /\ hpc[c] = "recv"
    /\ running
    /\ sent[c] < MaxMsgs
    /\ sent' = [sent EXCEPT ![c] = sent[c] + 1]
    /\ players' = SetPlayer(players, hid[c], data)
    /\ bullets' = bullets \o FromUpdate(NewBullets(hid[c], data), c)
    /\ ev' = NoEv
    /\ UNCHANGED <<aux, enemies, powerups, tickpos, ssock, hpc, hid, clients,
                   difficulty, last_powerup_time, running, now, ticks, nextPid, pwlog>>

\* play.py:711-713, 742-757: the client has closed its end: recv returns
\* nothing (or raises), the loop ends and the finally block runs
HandlerLeave(c) ==
    /\ hpc[c] = "recv"
    /\ clients' = Unregister(clients, hid[c])
    /\ players' = RemovePlayer(players, hid[c])
    /\ ssock' = [ssock EXCEPT ![c] = "closed"]
    /\ hpc' = [hpc EXCEPT ![c] = "done"]
    /\ ev' = NoEv
    /\ UNCHANGED <<aux, enemies, bullets, powerups, tickpos, sent, hid,
                   difficulty, last_powerup_time, running, now, ticks, nextPid, pwlog>>

\* play.py:715, 742-757: the bytes read are no pickle: pickle.loads raises, the
\* handler logs, leaves the loop and runs the finally block
HandlerUndecodable(c) ==
    /\ hpc[c] = "recv"
    /\ sent[c] < MaxMsgs
    /\ sent' = [sent EXCEPT ![c] = sent[c] + 1]
    /\ clients' = Unregister(clients, hid[c])
    /\ players' = RemovePlayer(players, hid[c])
    /\ ssock' = [ssock EXCEPT ![c] = "closed"]
    /\ hpc' = [hpc EXCEPT ![c] = "done"]
    /\ ev' = [kind |-> "drop", conn |-> c, cause |-> "undecodable"]
    /\ UNCHANGED <<aux, enemies, bullets, powerups, tickpos, hid,
                   difficulty, last_powerup_time, running, now, ticks, nextPid, pwlog>>

\* The bullets of data before the first one of fewer than 5 elements
WholeBullets(data) ==
    LET k == FirstIndex([j \in 1..Len(data.new_bullets) |-> Len(data.new_bullets[j]) < 5])
    IN  IF k = 0 THEN data.new_bullets ELSE SubSeq(data.new_bullets, 1, k - 1)

\* play.py:717-733, 742-757: the record is stored, the bullets before the
\* short one are appended, bullet[4] raises IndexError, and the finally block
\* deletes the record again
HandlerShortBullet(c, data) ==
    /\ hpc[c] = "recv"
    /\ sent[c] < MaxMsgs
    /\ sent' = [sent EXCEPT ![c] = sent[c] + 1]
    /\ clients' = Unregister(clients, hid[c])
    /\ players' = RemovePlayer(SetPlayer(players, hid[c], data), hid[c])
    /\ bullets' = bullets \o FromUpdate(NewBullets(hid[c], [data EXCEPT !.new_bullets = WholeBullets(data)]), c)
    /\ ssock' = [ssock EXCEPT ![c] = "closed"]
    /\ hpc' = [hpc EXCEPT ![c] = "done"]
    /\ ev' = [kind |-> "drop", conn |-> c, cause |-> "short bullet"]
    /\ UNCHANGED <<aux, enemies, powerups, tickpos, hid,
                   difficulty, last_powerup_time, running, now, ticks, nextPid, pwlog>>

----------------------------------------------------------------------------
\* GameServer.run: the accept path and the tick, one thread

\* play.py:683: a client has connected and accept returns its connection
RunAccept(c) ==
    /\ rpc = "accept"
    /\ lsock = "open"
    /\ ssock[c] = "none"
    /\ ssock' = [ssock EXCEPT ![c] = "open"]
    /\ rconn' = c
    /\ rpc' = "handshake"
    /\ ev' = NoEv
    /\ UNCHANGED <<aux, world, sent, hpc, hid, clients, bi, bleft, iterSize,
                   difficulty, last_powerup_time, running, now, ticks, nextPid, pwlog>>

\* play.py:686-692: the identifier is read (a blocking recv; an empty read
\* decodes to "") and the handler thread is started
RunHandshake ==
    /\ rpc = "handshake"
    /\ \E id \in Ids : hid' = [hid EXCEPT ![rconn] = id]
    /\ hpc' = [hpc EXCEPT ![rconn] = "init"]
    /\ rpc' = "register"
    /\ ev' = NoEv
    /\ UNCHANGED <<aux, world, sent, ssock, clients, rconn, bi, bleft, iterSize,
                   difficulty, last_powerup_time, running, now, ticks, nextPid, pwlog>>

\* play.py:694: self.clients[player_id] = client_socket
RegisterClient(cl, id, c) == DictSet(cl, id, c)

RunRegister ==
    /\ rpc = "register"
    /\ clients' = RegisterClient(clients, hid[rconn], rconn)
    /\ rconn' = 0
    /\ rpc' = "tick"
    /\ ev' = NoEv
    /\ UNCHANGED <<aux, world, sent, ssock, hpc, hid, bi, bleft, iterSize,
                   difficulty, last_powerup_time, running, now, ticks, nextPid, pwlog>>

\* play.py:681: the test of "while self.running", made when a pass ends
LoopTest(r) == IF r THEN "accept" ELSE "stopped"

\* play.py:683, 696-701, 775-785: accept times out after 0.5 s with no
\* connection made (or raises, the listening socket being closed), or the
\* accept path is through; update_game_state reads the
\* clock, spawns a powerup when due and expires old powerups
RunTickBegin(steps, maxTicks) ==
    /\ rpc \in {"accept", "tick"}
    /\ ticks < maxTicks
    /\ \E dt \in steps, type \in PowerupTypes, pos \in PowerupSpawnPos :
          LET t == now + dt
              due == t - last_powerup_time > PowerupInterval
              pws1 == IF due THEN spawn_powerup(powerups, pos, type, t, nextPid) ELSE powerups
              gone == SelectSeq(pws1, LAMBDA pw : Expired(pw, t))
          IN  /\ t <= MaxTime
              /\ now' = t
              /\ last_powerup_time' = IF due THEN t ELSE last_powerup_time
              /\ nextPid' = IF Len(pws1) > Len(powerups) THEN nextPid + 1 ELSE nextPid
              /\ powerups' = ExpirePowerups(pws1, t)
              /\ pwlog' = pwlog \o [k \in 1..Len(gone) |->
                                       [pid |-> gone[k].pid, cause |-> "expired", by |-> << >>]]
    /\ rpc' = "enemies"
    /\ ev' = NoEv
    /\ UNCHANGED <<aux, players, enemies, bullets, net, rconn, bi, bleft, iterSize,
                   difficulty, running, ticks>>

\* player["pos"] raises KeyError for this record
LacksPos(p) == "pos" \in p.missing

\* A loop "for player in players: if hypot(at - player["pos"]) < r: ...; break"
\* raises KeyError: it reaches a record without "pos" before it breaks
ReadFaults(pls, at, r) ==
    LET k == FirstIndex([j \in 1..Len(pls) |-> LacksPos(pls[j]) \/ Within(at, pls[j].pos, r)])
    IN  k # 0 /\ LacksPos(pls[k])

\* The enemy loop must read every player's "pos": an enemy fires (play.py:820-831)
EnemiesReadPos(ens, pls) ==
    Len(pls) > 0 /\ \E k \in 1..Len(ens) : ens[k].fire_timer - 1 <= 0

\* Positions of the powerups the bullet step of b0 loops over (play.py:941),
\* the drop of a kill included
PowerupPositions(b0, ens, pws, drop) ==
    LET b1 == [b0 EXCEPT !.pos = Add(b0.pos, b0.dir, BULLET_SPEED)]
        k == EnemyHit(b1, ens)
    IN  [j \in 1..Len(pws) |-> pws[j].pos]
        \o (IF drop # "none" /\ k # 0 /\ ens[k].health - b1.damage <= 0
            THEN <<ens[k].pos>> ELSE << >>)

\* The bullet step of b0 raises KeyError (play.py:926-928, 942-944)
BulletKeyFault(b0, pls, pwpos) ==
    LET speed == IF b0.owner = "enemy" THEN ENEMY_BULLET_SPEED ELSE BULLET_SPEED
        at == Add(b0.pos, b0.dir, speed)
    IN  /\ ~OutOfField(at)
        /\ \/ b0.owner = "enemy" /\ ReadFaults(pls, at, PlayerRadius)
           \/ \E j \in 1..Len(pwpos) : ReadFaults(pls, pwpos[j], PickupRadius)

\* The current step of the tick is about to loop over players.items()
\* (play.py:803, 828 in the enemy loop; 926, 942 in the bullet loop)
StepIterates ==
    \/ rpc = "enemies" /\ Len(players) > 0
    \/ /\ rpc = "bullets"
       /\ LET b == bullets[bi]
              speed == IF b.owner = "enemy" THEN ENEMY_BULLET_SPEED ELSE BULLET_SPEED
          IN  /\ ~OutOfField(Add(b.pos, b.dir, speed))
              /\ b.owner = "enemy" \/ Len(powerups) > 0

\* The iterator is created and the thread is preempted before its first next()
RunIterBegin ==
    /\ rpc \in {"enemies", "bullets"}
    /\ iterSize = -1
    /\ StepIterates
    /\ iterSize' = Len(players)
    /\ ev' = NoEv
    /\ UNCHANGED <<aux, world, net, rpc, rconn, bi, bleft,
                   difficulty, last_powerup_time, running, now, ticks, nextPid, pwlog>>

\* next() on a dict iterator raises RuntimeError when the dict changed size
IterFaults(size, pls) == size # -1 /\ size # Len(pls)

\* The exception leaves update_game_state and run (play.py:701 is outside the try)
RunFault ==
    /\ rpc \in {"enemies", "bullets"}
    /\ IterFaults(iterSize, players)
    /\ rpc' = "faulted"
    /\ iterSize' = -1
    /\ ev' = [kind |-> "fault", cause |-> "RuntimeError"]
    /\ UNCHANGED <<aux, world, net, rconn, bi, bleft,
                   difficulty, last_powerup_time, running, now, ticks, nextPid, pwlog>>

\* play.py:787-858: the enemies are advanced and the bullet list is copied
RunEnemies ==
    /\ rpc = "enemies"
    /\ ~IterFaults(iterSize, players)
    /\ ~(EnemiesReadPos(enemies, players) /\ \E k \in 1..Len(players) : LacksPos(players[k]))
    /\ LET r == EnemyLoop(enemies, 1, players, difficulty)
           bs == bullets \o r.fired
       IN  /\ enemies' = r.enemies
           /\ bullets' = bs
           /\ bi' = IF Len(bs) > 0 THEN 1 ELSE 0
           /\ bleft' = Len(bs)
           /\ rpc' = IF Len(bs) > 0 THEN "bullets" ELSE LoopTest(running)
           /\ ticks' = IF Len(bs) = 0 THEN ticks + 1 ELSE ticks
           /\ ev' = [kind |-> "enemies", bullets |-> Len(bs)]
    /\ iterSize' = -1
    /\ UNCHANGED <<aux, players, powerups, net, rconn,
                   difficulty, last_powerup_time, running, now, nextPid, pwlog>>

\* Draws of random.random() < 0.1 and random.choice at a kill (play.py:882-891):
\* no drop, or a drop of the type given
DropChoices == {"none", "xp"}

\* Draws of spawn_enemy's random values at a kill (play.py:895-896)
RespawnChoices == { c \in SpawnChoices : c.timer = ENEMY_FIRE_RATE }

\* The bullet at the head of the copy kills an enemy in this step
Kills(b0, ens) ==
    LET b1 == [b0 EXCEPT !.pos = Add(b0.pos, b0.dir, BULLET_SPEED)]
        k == IF OutOfField(b1.pos) THEN 0 ELSE EnemyHit(b1, ens)
    IN  k # 0 /\ ens[k].health - b1.damage <= 0

\* play.py:858-978: one bullet of the copy is advanced and resolved
RunBullet ==
    /\ rpc = "bullets"
    /\ ~IterFaults(iterSize, players)
    /\ \E drop \in (IF Kills(bullets[bi], enemies) THEN DropChoices ELSE {"none"}),
          c \in RespawnChoices :
          LET r == BulletStep(bullets[bi], players, enemies, powerups, difficulty,
                              drop, spawn_enemy(difficulty, c), now, nextPid)
              last == bleft = 1
          IN  /\ ~BulletKeyFault(bullets[bi], players,
                                 PowerupPositions(bullets[bi], enemies, powerups, drop))
              /\ bullets' = LET bs == IF r.kill THEN Relabel(bullets, r.hit) ELSE bullets
                            IN  IF r.removed THEN RemoveAt(bs, bi)
                                ELSE [bs EXCEPT ![bi] = r.bullet]
              /\ enemies' = r.enemies
              /\ players' = r.players
              /\ powerups' = r.powerups
              /\ nextPid' = IF r.dropped THEN nextPid + 1 ELSE nextPid
              /\ pwlog' = pwlog \o [k \in 1..Len(r.picks) |->
                                       [pid |-> r.picks[k].pid, cause |-> "picked", by |-> r.picks[k].by]]
              /\ bi' = IF last THEN 0 ELSE IF r.removed THEN bi ELSE bi + 1
              /\ bleft' = bleft - 1
              /\ rpc' = IF last THEN LoopTest(running) ELSE "bullets"
              /\ ticks' = IF last THEN ticks + 1 ELSE ticks
              /\ ev' = [kind |-> "bullet", bl0 |-> bullets, bi |-> bi,
                        b0 |-> bullets[bi], b |-> r.bullet,
                        removed |-> r.removed, out |-> r.out, hit |-> r.hit, kill |-> r.kill,
                        victim |-> r.victim, dropped |-> r.dropped,
                        pl0 |-> players, plc |-> r.plc, pl1 |-> r.players,
                        en0 |-> enemies, pw0 |-> powerups, picks |-> r.picks,
                        difficulty |-> difficulty]
    /\ iterSize' = -1
    /\ UNCHANGED <<aux, net, rconn, difficulty, last_powerup_time, running, now>>

\* A record without "pos" is read by the tick (play.py:805, 830 in the enemy
\* loop, the first under a random draw; 927, 943 in the bullet loop): the
\* KeyError leaves update_game_state and run (play.py:701 is outside the try).
\* What the interrupted step had done to the world is left out.
RunKeyFault ==
    /\ \/ /\ rpc = "enemies"
          /\ \E k \in 1..Len(players) : LacksPos(players[k])
       \/ /\ rpc = "bullets"
          /\ \E drop \in (IF Kills(bullets[bi], enemies) THEN DropChoices ELSE {"none"}) :
                BulletKeyFault(bullets[bi], players,
                               PowerupPositions(bullets[bi], enemies, powerups, drop))
    /\ rpc' = "faulted"
    /\ iterSize' = -1
    /\ ev' = [kind |-> "fault", cause |-> "KeyError"]
    /\ UNCHANGED <<aux, world, net, rconn, bi, bleft,
                   difficulty, last_powerup_time, running, now, ticks, nextPid, pwlog>>

----------------------------------------------------------------------------
\* GameServer.close, called by a thread of the host's game (play.py:980-995)

\* calls of close() in a behaviour
MaxCloses == 2

\* play.py:981: self.running = False
CloseBegin ==
    /\ closing.pc \in {"idle", "done"}
    /\ closing.calls < MaxCloses
    /\ running' = FALSE
    /\ closing' = [closing EXCEPT !.pc = "iter", !.calls = closing.calls + 1]
    /\ ev' = NoEv
    /\ UNCHANGED <<merged, lsock, cli, world, net, tickpos,
                   difficulty, last_powerup_time, now, ticks, nextPid, pwlog>>

\* play.py:983: the iterator over self.clients.values() is made; it records
\* the size of the dict
CloseIter ==
    /\ closing.pc = "iter"
    /\ closing' = [closing EXCEPT !.pc = "clients", !.seen = {},
                                  !.size = Cardinality(DOMAIN clients)]
    /\ ev' = NoEv
    /\ UNCHANGED <<merged, lsock, cli, world, net, tickpos,
                   difficulty, last_powerup_time, running, now, ticks, nextPid, pwlog>>

\* play.py:983-987: the iterator is asked for its next value.  A dict whose
\* size differs from the recorded one raises RuntimeError, which the try
\* inside the loop body does not cover: it leaves close().  Otherwise the next
\* connection is closed, or the loop has ended.  The keys are visited in some
\* order here, the dict's order being of no account for a close.
CloseNext ==
    /\ closing.pc = "clients"
    /\ IF Cardinality(DOMAIN clients) # closing.size
       THEN /\ closing' = [closing EXCEPT !.pc = "faulted"]
            /\ ev' = [kind |-> "fault", cause |-> "RuntimeError in close"]
            /\ UNCHANGED ssock
       ELSE IF DOMAIN clients \ closing.seen # {}
       THEN \E id \in DOMAIN clients \ closing.seen :
               /\ ssock' = [ssock EXCEPT ![clients[id]] = "closed"]
               /\ closing' = [closing EXCEPT !.seen = closing.seen \cup {id}]
               /\ ev' = NoEv
       ELSE /\ closing' = [closing EXCEPT !.pc = "socket"]
            /\ ev' = NoEv
            /\ UNCHANGED ssock
    /\ UNCHANGED <<merged, lsock, cli, world, sent, hpc, hid, clients, tickpos,
                   difficulty, last_powerup_time, running, now, ticks, nextPid, pwlog>>

\* play.py:989-993: the listening socket is closed
CloseSocket ==
    /\ closing.pc = "socket"
    /\ lsock' = "closed"
    /\ closing' = [closing EXCEPT !.pc = "done"]
    /\ ev' = NoEv
    /\ UNCHANGED <<merged, cli, world, net, tickpos,
                   difficulty, last_powerup_time, running, now, ticks, nextPid, pwlog>>

----------------------------------------------------------------------------
\* The server with its accept path and handlers; the clock advances by the
\* steps of NetTimeSteps
NetTimeSteps == {1}

Next ==
    \/ \E c \in Conns : HandlerInit(c)
    \/ \E c \in Conns, data \in Payloads \cup NoPosRecords : HandlerMerge(c, data)
    \/ \E c \in Conns : HandlerSend(c)
    \/ \E c \in Conns : HandlerUndecodable(c)
    \/ \E c \in Conns, data \in ShortBulletRecords : HandlerShortBullet(c, data)
    \/ \E c \in Conns : HandlerLeave(c)
    \/ \E c \in Conns : RunAccept(c)
    \/ RunHandshake
    \/ RunRegister
    \/ RunTickBegin(NetTimeSteps, NetMaxTicks)
    \/ RunIterBegin
    \/ RunFault
    \/ RunKeyFault
    \/ RunEnemies
    \/ RunBullet

Spec == Init /\ [][Next]_vars

\* The run thread is scheduled: a step of it that waits for no client is
\* eventually taken.  RunAccept and RunHandshake wait for a client (a
\* connection, the identifier bytes) and the handlers' reads for a peer.
\* Inside update_game_state nothing waits: the thread does not stay in the
\* enemy loop or the bullet loop for ever (it leaves by finishing or by raising).
RunFairness ==
    /\ WF_vars(RunRegister)
    /\ WF_vars(RunTickBegin(NetTimeSteps, NetMaxTicks))
    /\ []<>(rpc \notin {"enemies", "bullets"})

SpecLive == Spec /\ RunFairness

\* The server with a host that calls close()
NextClose ==
    \/ \E c \in Conns : HandlerInit(c)
    \/ \E c \in Conns, data \in Payloads : HandlerMerge(c, data)
    \/ \E c \in Conns : HandlerSend(c)
    \/ \E c \in Conns : HandlerLeave(c)
    \/ \E c \in Conns : RunAccept(c)
    \/ RunHandshake
    \/ RunRegister
    \/ RunTickBegin(NetTimeSteps, NetMaxTicks)
    \/ RunEnemies
    \/ RunBullet
    \/ CloseBegin
    \/ CloseIter
    \/ CloseNext
    \/ CloseSocket

SpecClose == Init /\ [][NextClose]_vars

----------------------------------------------------------------------------
\* Combat and progression: two connections are Active (accepted, registered,
\* their handlers waiting in recv), as "p1" and "enemy", and the host has set the
\* difficulty (play.py:2483 precedes the host's own connect); the clients send any
\* update of Payloads and the tick runs with every clock step of TimeSteps.
\* A step's loop over players is taken whole here; its fault under a
\* concurrent insert or delete is the subject of RunIterBegin and RunFault in Spec.

CombatIds == [c \in Conns |-> IF c = 1 THEN "p1" ELSE "enemy"]

InitCombat ==
    /\ players = << >>
    /\ enemies \in InitEnemies
    /\ bullets = << >>
    /\ powerups = << >>
    /\ clients = [id \in {CombatIds[c] : c \in Conns} |-> CHOOSE c \in Conns : CombatIds[c] = id]
    /\ difficulty \in Difficulties
    /\ last_powerup_time = 0
    /\ running = TRUE
    /\ now = 0
    /\ ticks = 0
    /\ rpc = "accept"
    /\ rconn = 0
    /\ bi = 0
    /\ bleft = 0
    /\ iterSize = -1
    /\ sent = [c \in Conns |-> 0]
    /\ ssock = [c \in Conns |-> "open"]
    /\ hpc = [c \in Conns |-> "recv"]
    /\ hid = CombatIds
    /\ ev = NoEv
    /\ nextPid = 1
    /\ pwlog = << >>
    /\ merged = [c \in Conns |-> 0]
    /\ closing = NotClosing
    /\ lsock = "open"
    /\ nc = NoClient
    /\ link = NoLink
    /\ game = NoGame

\* the connections whose client closes
Leavers == {1}

NextCombat ==
    \/ \E c \in Conns, data \in Payloads : HandlerPass(c, data)
    \/ \E c \in Leavers : HandlerLeave(c)
    \/ RunTickBegin(TimeSteps, MaxTicks)
    \/ RunEnemies
    \/ RunBullet

SpecCombat == InitCombat /\ [][NextCombat]_vars

\* Updates with one bullet of penetration 2 and a damage no enemy dies of:
\* one fired at the enemies around (50, 50), one fired from the right between
\* the two groups of enemies
PiercePayloads ==
    { [pos |-> Far, health |-> 100, shield |-> 0, level |-> 1, xp |-> 0,
       xp_to_next_level |-> 100, upgrade_points |-> 0, missing |-> {},
       new_bullets |-> << <<40, 50, Right, 2, 5>> >>],
      [pos |-> Far, health |-> 100, shield |-> 0, level |-> 1, xp |-> 0,
       xp_to_next_level |-> 100, upgrade_points |-> 0, missing |-> {},
       new_bullets |-> << <<82, 60, Left, 2, 5>> >>] }

NextPierce ==
    \/ \E c \in Conns, data \in PiercePayloads : HandlerPass(c, data)
    \/ RunTickBegin(TimeSteps, MaxTicks)
    \/ RunEnemies
    \/ RunBullet

SpecPierce == InitCombat /\ [][NextPierce]_vars

\* Kills in quick succession: the updates carry bullets that kill
NextDrops ==
    \/ \E c \in Conns, data \in DropPayloads : HandlerPass(c, data)
    \/ RunTickBegin(NetTimeSteps, NetMaxTicks)
    \/ RunEnemies
    \/ RunBullet

SpecDrops == InitCombat /\ [][NextDrops]_vars

----------------------------------------------------------------------------
\* NetworkClient (play.py:556-638), the game thread that calls it each frame
\* (play.py:2690-2709), and the server as this one connection meets it

\* Bounds of the client model
MaxFrames == 3
MaxConnects == 2
MaxClock == 2

srv == <<world, net, tickpos, shut, merged, difficulty, last_powerup_time,
         running, ticks, nextPid, pwlog>>

\* How a call of connect() goes: through, or an exception from
\* socket.socket(), from connect() or from the send of the identifier
ConnectOutcomes == {"ok", "no socket", "refused", "send failed"}

\* connect() that leaves connected as it is when the identifier send raises
ConnectResultNoReset(c, outcome) ==
    CASE outcome = "ok" ->
           [c EXCEPT !.socket = "open", !.connected = TRUE, !.receive_thread = "running"]
      [] outcome = "no socket" -> [c EXCEPT !.connected = FALSE]
      [] outcome = "refused" -> [c EXCEPT !.socket = "unconnected", !.connected = FALSE]
      [] OTHER -> [c EXCEPT !.socket = "open", !.connected = TRUE]

\* NetworkClient.connect (play.py:576-594): the fields after the call
ConnectResult(c, outcome) ==
    CASE outcome = "ok" ->
           [c EXCEPT !.socket = "open", !.connected = TRUE, !.receive_thread = "running"]
      [] outcome = "no socket" -> [c EXCEPT !.connected = FALSE]
      [] outcome = "refused" -> [c EXCEPT !.socket = "unconnected", !.connected = FALSE]
      [] OTHER -> [c EXCEPT !.socket = "open", !.connected = FALSE]

IdMessage == [kind |-> "id"]

\* A call of connect() by the game (play.py:2485, 2518), the receive loop of
\* an earlier connection having ended.  tries is history: the calls of
\* socket.connect made.
ClientConnect ==
    /\ ~nc.connected
    /\ nc.receive_thread # "running"
    /\ nc.connects < MaxConnects
    /\ \E outcome \in ConnectOutcomes :
          /\ nc' = [ConnectResult(nc, outcome) EXCEPT !.connects = nc.connects + 1]
          /\ link' = IF outcome = "ok"
                     THEN [NoLink EXCEPT !.up = <<IdMessage>>, !.peer = "accepted"]
                     ELSE NoLink
          /\ ev' = [kind |-> "connect", outcome |-> outcome, returns |-> outcome = "ok",
                    tries |-> IF outcome = "no socket" THEN 0 ELSE 1]
    /\ UNCHANGED <<srv, game, now>>

\* send_data that keeps a failed update to send it again
SendDataBuffers(c, up, ok, t) ==
    IF ~c.connected THEN [nc |-> c, up |-> up, transmitted |-> 0]
    ELSE [nc |-> [c EXCEPT !.stamps = Append(c.stamps, t)],
          up |-> Append(up, [kind |-> "update", seq |-> Len(c.stamps) + 1, send_time |-> t]),
          transmitted |-> 1]

\* NetworkClient.send_data (play.py:596-606) at clock t; ok: socket.send goes through
SendData(c, up, ok, t) ==
    IF ~c.connected THEN [nc |-> c, up |-> up, transmitted |-> 0]
    ELSE IF ok
    THEN [nc |-> [c EXCEPT !.stamps = Append(c.stamps, t)],
          up |-> Append(up, [kind |-> "update", seq |-> Len(c.stamps) + 1, send_time |-> t]),
          transmitted |-> 1]
    ELSE [nc |-> [c EXCEPT !.connected = FALSE], up |-> up, transmitted |-> 0]

\* Updates the client has sent on the connection that no snapshot read by
\* the client has answered yet
Outstanding(l) == l.updates - l.answers

\* A frame of the game: update_multiplayer calls send_data (play.py:2690-2707).
\* A send to a peer that has closed may raise.
ClientSendData ==
    /\ nc.connects > 0
    /\ nc.frames < MaxFrames
    /\ \E ok \in (IF link.peer = "closed" \/ nc.socket # "open" THEN {FALSE} ELSE {TRUE}) :
          LET r == SendData(nc, link.up, ok, now)
          IN  /\ nc' = [r.nc EXCEPT !.frames = nc.frames + 1]
              /\ link' = [link EXCEPT !.up = r.up, !.updates = link.updates + r.transmitted]
              /\ ev' = [kind |-> "send_data", conn0 |-> nc.connected, ok |-> ok,
                        transmitted |-> r.transmitted, up0 |-> link.up,
                        outstanding |-> Len(link.up) + Len(link.down)]
    /\ UNCHANGED <<srv, game, now>>

\* What one recv of the receive loop returns
Reads == {"whole", "partial"}

\* receive_data that stores what it has read before it decodes it
ReceiveStoresFirst(c, read, snap, t) ==
    IF read = "whole"
    THEN [c EXCEPT !.game_state = snap, !.ping = (t - snap.send_time) * 1000,
                   !.receive_thread = IF c.connected THEN "running" ELSE "ended"]
    ELSE [c EXCEPT !.game_state = [kind |-> "partial"], !.connected = FALSE, !.receive_thread = "ended"]

\* One pass of NetworkClient.receive_data (play.py:608-629) and the loop test
\* after it.  read: "whole" (the bytes are one snapshot snap), "partial" (a
\* truncated pickle: pickle.loads raises), "empty" (the peer has closed),
\* "error" (recv raises: the socket was closed by close()).
Receive(c, read, snap, t) ==
    IF read = "whole"
    THEN [c EXCEPT !.game_state = snap, !.ping = (t - snap.send_time) * 1000,
                   !.receive_thread = IF c.connected THEN "running" ELSE "ended"]
    ELSE [c EXCEPT !.connected = FALSE, !.receive_thread = "ended"]

ClientReceive ==
    /\ nc.receive_thread = "running"
    /\ \/ /\ nc.socket = "open"
          /\ Len(link.down) > 0
          /\ \E read \in Reads :
                /\ nc' = [Receive(nc, read, Head(link.down), now) EXCEPT
                             !.decoded = IF read = "whole" THEN Head(link.down) ELSE nc.decoded]
                /\ ev' = [kind |-> "recv", read |-> read, snap |-> Head(link.down),
                          t |-> now, cache0 |-> nc.game_state, conn0 |-> nc.connected, stamps |-> nc.stamps]
          /\ link' = [link EXCEPT !.down = Tail(link.down),
                                  !.answers = IF Head(link.down).answers > 0
                                              THEN link.answers + 1 ELSE link.answers]
       \/ /\ nc.socket = "open"
          /\ Len(link.down) = 0
          /\ link.peer = "closed"
          /\ nc' = Receive(nc, "empty", [kind |-> "none"], now)
          /\ ev' = [kind |-> "recv", read |-> "empty", snap |-> [kind |-> "none"],
                    t |-> now, cache0 |-> nc.game_state, conn0 |-> nc.connected, stamps |-> nc.stamps]
          /\ UNCHANGED link
       \/ /\ nc.socket = "closed"
          /\ nc' = Receive(nc, "error", [kind |-> "none"], now)
          /\ ev' = [kind |-> "recv", read |-> "error", snap |-> [kind |-> "none"],
                    t |-> now, cache0 |-> nc.game_state, conn0 |-> nc.connected, stamps |-> nc.stamps]
          /\ UNCHANGED link
    /\ UNCHANGED <<srv, game, now>>

\* calls of NetworkClient.close() in a behaviour
MaxClientCloses == 2

\* close() that leaves the socket open
CloseResultKeepsSocket(c) == [c EXCEPT !.connected = FALSE]

\* NetworkClient.close (play.py:631-638): the fields after the call; with
\* self.socket None there is nothing to close
CloseResult(c) ==
    [c EXCEPT !.connected = FALSE,
              !.socket = IF c.socket = "none" THEN "none" ELSE "closed"]

\* close() is called by the game: when the player leaves (play.py:2543,
\* 2570) and when the game ends (play.py:3080), connected or not
ClientClose ==
    /\ nc.closes < MaxClientCloses
    /\ nc' = [CloseResult(nc) EXCEPT !.closes = nc.closes + 1]
    /\ ev' = [kind |-> "close", conn0 |-> nc.connected, socket0 |-> nc.socket]
    /\ UNCHANGED <<srv, game, now, link>>

\* connect() is called again (play.py:2518, the same NetworkClient object)
\* after close(), while the receive thread of the closed connection is still
\* in its recv: self.socket becomes the new socket and, the call going
\* through, a second receive thread is started
ClientReconnect ==
    /\ nc.socket = "closed"
    /\ nc.receive_thread = "running"
    /\ nc.old_thread # "recv"
    /\ nc.connects < MaxConnects
    /\ \E outcome \in ConnectOutcomes :
          /\ nc' = [ConnectResult(nc, outcome) EXCEPT
                       !.connects = nc.connects + 1,
                       !.old_thread = "recv",
                       !.receive_thread = IF outcome = "ok" THEN "running" ELSE "none"]
          /\ link' = IF outcome = "ok"
                     THEN [NoLink EXCEPT !.up = <<IdMessage>>, !.peer = "accepted"]
                     ELSE NoLink
          /\ ev' = [kind |-> "connect", outcome |-> outcome, returns |-> outcome = "ok",
                    tries |-> IF outcome = "no socket" THEN 0 ELSE 1]
    /\ UNCHANGED <<srv, game, now>>

\* The receive thread of the closed connection: its pending recv raises, and
\* the except branch (play.py:626-629) sets self.connected = False and breaks
OldReceive ==
    /\ nc.old_thread = "recv"
    /\ LET r == Receive(nc, "error", [kind |-> "none"], now)
       IN  nc' = [nc EXCEPT !.connected = r.connected, !.game_state = r.game_state,
                            !.ping = r.ping, !.old_thread = "ended"]
    /\ ev' = [kind |-> "old recv", conn0 |-> nc.connected, socket0 |-> nc.socket,
              thread0 |-> nc.receive_thread]
    /\ UNCHANGED <<srv, game, now, link>>

\* The snapshot the server sends: game_state["send_time"] is the server's
\* time.time() (play.py:735, and 777 in the tick); the client's own stamp is
\* inside players[id] only.  answers is history: the update read before it.
Snapshot(answers, t) == [kind |-> "snapshot", answers |-> answers, send_time |-> t]

\* play.py:686: the run thread reads the identifier
PeerReadId ==
    /\ link.peer = "accepted"
    /\ Len(link.up) > 0
    /\ link' = [link EXCEPT !.up = Tail(link.up), !.peer = "init", !.taken = link.taken + 1]
    /\ ev' = [kind |-> "peer"]
    /\ UNCHANGED <<srv, game, now, nc>>

\* play.py:707: the handler sends the initial snapshot
PeerInit ==
    /\ link.peer = "init"
    /\ link' = [link EXCEPT !.down = Append(link.down, Snapshot(0, now)), !.peer = "recv"]
    /\ ev' = [kind |-> "peer"]
    /\ UNCHANGED <<srv, game, now, nc>>

\* play.py:711-740: the handler reads what has arrived (recv returns up to
\* BUFFER_SIZE bytes of the stream: one update, or several sent back to back),
\* pickle.loads decodes the first update of the bytes read, and one snapshot
\* is sent
PeerAnswer ==
    /\ link.peer = "recv"
    /\ Len(link.up) > 0
    /\ \E k \in 1..Len(link.up) :
          /\ link' = [link EXCEPT !.up = SubSeq(link.up, k + 1, Len(link.up)),
                                  !.down = Append(link.down, Snapshot(link.up[1].seq, now)),
                                  !.taken = link.taken + k]
          /\ ev' = [kind |-> "answer", read |-> k, sent |-> 1]
    /\ UNCHANGED <<srv, game, now, nc>>

\* play.py:742-757: the handler leaves its loop and closes the connection
PeerClose ==
    /\ link.peer \in {"init", "recv"}
    /\ link' = [link EXCEPT !.peer = "closed"]
    /\ ev' = [kind |-> "peer"]
    /\ UNCHANGED <<srv, game, now, nc>>

\* time.time() moves on
ClockTick ==
    /\ nc.connects > 0
    /\ now < MaxClock
    /\ now' = now + 1
    /\ ev' = [kind |-> "clock"]
    /\ UNCHANGED <<srv, game, nc, link>>

NextClient ==
    \/ ClientConnect
    \/ ClientSendData
    \/ ClientReceive
    \/ ClientClose
    \/ PeerReadId
    \/ PeerInit
    \/ PeerAnswer
    \/ PeerClose
    \/ ClockTick

SpecClient == Init /\ [][NextClient]_vars

\* The client across close() and a second connect()
NextReconnect ==
    \/ ClientConnect
    \/ ClientReconnect
    \/ ClientClose
    \/ ClientReceive
    \/ OldReceive
    \/ PeerReadId
    \/ PeerInit
    \/ PeerClose
    \/ ClockTick

\* The receive threads are scheduled: a recv that can return, or raise, does
ReceiveFairness == WF_vars(ClientReceive) /\ WF_vars(OldReceive)

SpecReconnect == Init /\ [][NextReconnect]_vars /\ ReceiveFairness

----------------------------------------------------------------------------
\* Properties

PenetrationNeverNegative ==
    /\ \A k \in 1..Len(bullets) : bullets[k].penetration >= 0
    /\ (ev.kind = "bullet" /\ ev.hit # 0) =>
          /\ ev.b.penetration = ev.b0.penetration - 1
          /\ ev.removed <=> ev.b.penetration = 0
    /\ (ev.kind = "bullet" /\ ev.hit = 0 /\ ev.victim = 0) => (ev.removed <=> ev.out)

\* C3: every record of game_state["players"] has shield >= 0.
ShieldNeverNegative ==
    \A k \in 1..Len(players) : players[k].shield >= 0

\* C4: an enemy-owned bullet of damage d that hits a player with shield s and
\* health h leaves shield 0 and health h - (d - s) if s > 0 and d > s, shield
\* s - d and health h if s > 0 and d <= s, health h - d if s = 0; the bullet is
\* removed in that step and no other player's record is touched by the hit.
EnemyBulletDamage ==
    (ev.kind = "bullet" /\ ev.victim # 0) =>
        LET p == ev.pl0[ev.victim]
            q == ev.plc[ev.victim]
            d == ev.b0.damage
        IN  /\ ev.b0.owner = "enemy"
            /\ (p.shield > 0 /\ d > p.shield) =>
                  (q.shield = 0 /\ q.health = p.health - (d - p.shield))
            /\ (p.shield > 0 /\ d <= p.shield) =>
                  (q.shield = p.shield - d /\ q.health = p.health)
            /\ p.shield = 0 => (q.shield = 0 /\ q.health = p.health - d)
            /\ ev.removed
            /\ bullets = RemoveAt(ev.bl0, ev.bi)
            /\ Len(ev.plc) = Len(ev.pl0)
            /\ \A j \in 1..Len(ev.pl0) : j # ev.victim => ev.plc[j] = ev.pl0[j]

\* a bullet of more damage than the shield has hit the first of two players
ShieldOverflowHit ==
    /\ ev.kind = "bullet"
    /\ ev.victim # 0
    /\ Len(ev.pl0) = 2
    /\ ev.pl0[ev.victim].shield > 0
    /\ ev.b0.damage > ev.pl0[ev.victim].shield

\* C5: when a bullet of owner p brings an enemy to health <= 0, in that step the
\* enemy is replaced, the bullet is removed if its penetration reached 0, and
\* the XP of player p, before any level-up subtraction, grows by 10 times the
\* xp_multiplier of the server's difficulty, no other XP changing; with p not
\* a key of players no XP changes.
KillResolution ==
    (ev.kind = "bullet" /\ ev.kill) =>
        LET own == ev.b0.owner
            n == Len(enemies)
        IN  /\ enemies = Append(RemoveAt(ev.en0, ev.hit), enemies[n])
            /\ ev.b.penetration = 0 => (ev.removed /\ bullets = RemoveAt(ev.bl0, ev.bi))
            /\ Len(ev.plc) = Len(ev.pl0)
            /\ \A j \in 1..Len(ev.pl0) :
                  LET p == ev.pl0[j]
                      q == ev.plc[j]
                      sub == IF q.level > p.level THEN p.xp_to_next_level ELSE 0
                  IN  IF p.id = own
                      THEN 10 * (q.xp + sub - p.xp)
                              = 10 * DIFFICULTY_SETTINGS[difficulty].xp_multiplier10
                      ELSE q.xp = p.xp

\* a kill by a bullet of a present player on a server of difficulty "hard"
KillByPlayerOnHard ==
    /\ ev.kind = "bullet"
    /\ ev.kill
    /\ ev.b0.owner \in PlayerIds(ev.pl0)
    /\ difficulty = "hard"

\* C6: an XP grant (kill reward or xp powerup) to a player whose XP with the
\* grant is x and whose threshold is t: with x >= t the level grows by exactly 1,
\* XP becomes x - t, the threshold floor(1.5 * t), the upgrade points grow by
\* exactly 1; with x < t level, threshold and upgrade points stay.  One grant,
\* one check.
LevelUpOncePerGrant ==
    ev.kind = "bullet" =>
        LET Rule(p, q, g) ==
                LET x == p.xp + g
                    t == p.xp_to_next_level
                IN  IF x >= t
                    THEN /\ q.level = p.level + 1
                         /\ q.xp = x - t
                         /\ 2 * q.xp_to_next_level <= 3 * t
                         /\ 3 * t < 2 * q.xp_to_next_level + 2
                         /\ q.upgrade_points = p.upgrade_points + 1
                    ELSE /\ q.level = p.level
                         /\ q.xp = x
                         /\ q.xp_to_next_level = t
                         /\ q.upgrade_points = p.upgrade_points
        IN  /\ (ev.kill /\ ev.b0.owner \in PlayerIds(ev.pl0)) =>
                  LET i == PIndex(ev.pl0, ev.b0.owner)
                  IN  Rule(ev.pl0[i], ev.plc[i], DIFFICULTY_SETTINGS[difficulty].xp_multiplier10)
            /\ \A n \in 1..Len(ev.picks) :
                  ev.picks[n].type = "xp" =>
                      LET i == PIndex(ev.picks[n].pre, ev.picks[n].by[1])
                      IN  Rule(ev.picks[n].pre[i], ev.picks[n].post[i], 30)

\* a kill reward has raised a level and left an XP that still reaches the new threshold
GrantLeftXpAboveThreshold ==
    /\ ev.kind = "bullet"
    /\ ev.kill
    /\ ev.b0.owner \in PlayerIds(ev.pl0)
    /\ LET i == PIndex(ev.pl0, ev.b0.owner)
       IN  /\ ev.plc[i].level = ev.pl0[i].level + 1
           /\ ev.plc[i].xp >= ev.plc[i].xp_to_next_level

\* C7: a powerup leaves game_state["powerups"] at most once, expired or picked
\* up and never both, and a pickup applies its effect to exactly one player, the
\* first in iteration order within the pickup radius, the others' records
\* staying as they were.
PowerupLeavesOnce ==
    /\ \A a, b \in 1..Len(pwlog) : a # b => pwlog[a].pid # pwlog[b].pid
    /\ \A a \in 1..Len(pwlog), k \in 1..Len(powerups) : pwlog[a].pid # powerups[k].pid
    /\ \A a \in 1..Len(pwlog) :
          \/ pwlog[a].cause = "expired" /\ pwlog[a].by = << >>
          \/ pwlog[a].cause = "picked" /\ Len(pwlog[a].by) = 1
    /\ ev.kind = "bullet" =>
          \A n \in 1..Len(ev.picks) :
              LET pk == ev.picks[n]
                  near == {j \in 1..Len(pk.pre) : Within(pk.pos, pk.pre[j].pos, PickupRadius)}
                  first == CHOOSE j \in near : \A o \in near : j <= o
              IN  /\ near # {}
                  /\ pk.by = << pk.pre[first].id >>
                  /\ Len(pk.post) = Len(pk.pre)
                  /\ \A j \in 1..Len(pk.pre) : j # first => pk.post[j] = pk.pre[j]

\* a powerup has been picked up with two players within its radius
PickupWithTwoInRadius ==
    /\ ev.kind = "bullet"
    /\ \E n \in 1..Len(ev.picks) :
          Cardinality({j \in 1..Len(ev.picks[n].pre) :
                          Within(ev.picks[n].pos, ev.picks[n].pre[j].pos, PickupRadius)}) = 2

\* C8: a bullet appended from a client's update never changes a player's health
\* or shield, and a bullet fired by the enemy logic never changes an enemy's
\* health, whatever identifier the client presented.
NoFriendlyFire ==
    ev.kind = "bullet" =>
        /\ ev.b0.from = "client" =>
              /\ Len(ev.plc) = Len(ev.pl0)
              /\ \A j \in 1..Len(ev.pl0) :
                    /\ ev.plc[j].health = ev.pl0[j].health
                    /\ ev.plc[j].shield = ev.pl0[j].shield
        /\ ev.b0.from = "server" => ev.hit = 0

\* C9: once the handler of a connection has finished its cleanup, the socket is
\* closed and the connection's identifier, if no other connection presented
\* the same one, is a key of neither self.clients nor game_state["players"].
CleanupComplete ==
    \A c \in Conns :
        hpc[c] = "done" =>
            /\ ssock[c] = "closed"
            /\ (\A o \in Conns \ {c} : hid[o] # hid[c]) =>
                  /\ hid[c] \notin DOMAIN clients
                  /\ hid[c] \notin PlayerIds(players)

\* C10: while running is true the run thread is never ended by a fault raised
\* in the tick's iteration over players.
TickLoopNeverFaults ==
    running => rpc # "faulted"

\* C11: a malformed client payload has no effect beyond the drop of its
\* connection: the run thread is never ended by a record the handler stored
\* (a decodable record without a key the tick reads), and a connection dropped
\* for undecodable bytes or a short bullet is closed with its handler done.
MalformedOnlyDropsConnection ==
    /\ ev.kind = "fault" => ev.cause # "KeyError"
    /\ ev.kind = "drop" => (hpc[ev.conn] = "done" /\ ssock[ev.conn] = "closed")

\* C12: the accept path never starves the tick: the run thread, once it holds
\* an accepted connection and reads its identifier (play.py:686), always gets
\* on to register the connection and to update_game_state, whatever the
\* client does.
AcceptPathNeverStarvesTick ==
    (rpc = "handshake") ~> (rpc = "register")

\* The bullets of snapshot bs that were appended for the update of connection c
OfUpdate(bs, c) == {k \in 1..Len(bs) : bs[k].upd = c}

\* C13: the merge of an update with n new bullets appends exactly n bullets
\* owned by the client's identifier to game_state["bullets"], and the snapshot
\* sent in answer to that update holds all n of them, whatever the tick loop
\* does in between.
MergedBulletsInSnapshot ==
    /\ ev.kind = "merge" =>
          /\ Len(bullets) = Len(ev.bl0) + Len(ev.data.new_bullets)
          /\ SubSeq(bullets, 1, Len(ev.bl0)) = ev.bl0
          /\ \A k \in Len(ev.bl0) + 1 .. Len(bullets) :
                bullets[k].owner = ev.id /\ bullets[k].upd = ev.conn
    /\ ev.kind = "send" => Cardinality(OfUpdate(ev.snapshot, ev.conn)) = ev.n

CloseCompletes ==
    /\ closing.pc # "faulted"
    /\ closing.pc = "done" => lsock = "closed"

\* C15: within one connection the traffic alternates: the client transmits an
\* update only when every update it sent before has been answered by a
\* snapshot it has read, and the server sends one snapshot for each message it
\* reads (a read that takes k messages is answered by k snapshots).
StrictAlternation ==
    /\ (ev.kind = "send_data" /\ ev.transmitted = 1) => ev.outstanding = 0
    /\ ev.kind = "answer" => ev.sent = ev.read

\* C17: a connect() that fails (at socket creation, at connect or at the send
\* of the identifier) returns False and leaves connected False, no receive
\* loop running, nothing sent and no second attempt made; a connect() that
\* succeeds has sent the identifier and nothing else, and on every connection
\* the first message the server reads is the identifier.
ConnectContract ==
    /\ ev.kind = "connect" =>
          IF ev.outcome = "ok"
          THEN /\ ev.returns /\ nc.connected /\ nc.receive_thread = "running"
               /\ link.up = <<IdMessage>> /\ link.taken = 0
          ELSE /\ ~ev.returns /\ ~nc.connected /\ nc.receive_thread # "running"
               /\ ev.tries <= 1
               /\ link = NoLink
    /\ game = NoGame
    /\ (link.taken = 0 /\ Len(link.up) > 0) => link.up[1] = IdMessage

\* connect() has failed at the send of the identifier
ConnectFailedAtIdentifierSend ==
    ev.kind = "connect" /\ ev.outcome = "send failed" /\ nc.socket = "open"

\* C18: send_data transmits nothing when connected is False; when connected it
\* transmits the update once; when the transmit fails connected becomes False
\* and the update is not kept or sent again; connected stays False, and so
\* every later send_data does nothing, until connect() is called.
SendDataContract ==
    /\ ev.kind = "send_data" =>
          /\ ~ev.conn0 => (ev.transmitted = 0 /\ link.up = ev.up0 /\ ~nc.connected)
          /\ (ev.conn0 /\ ev.ok) =>
                /\ ev.transmitted = 1
                /\ Len(link.up) = Len(ev.up0) + 1
                /\ SubSeq(link.up, 1, Len(ev.up0)) = ev.up0
                /\ link.up[Len(link.up)].kind = "update"
          /\ (ev.conn0 /\ ~ev.ok) =>
                (ev.transmitted = 0 /\ link.up = ev.up0 /\ ~nc.connected)
    /\ ev.kind \in {"send_data", "recv", "close"} => (nc.connected => ev.conn0)

\* a send_data after the failed one was a no-op, on a client that had been connected
SendDataAfterFailure ==
    /\ ev.kind = "send_data"
    /\ ~ev.conn0
    /\ ev.transmitted = 0
    /\ nc.socket = "open"
    /\ link.peer = "closed"
    /\ nc.receive_thread = "running"

\* C19: the cached game_state is the last snapshot the receive loop has
\* deserialized: a read that decodes replaces the cache by what it decoded;
\* an empty read or an error sets connected False, leaves the cache as it was
\* and ends the loop; and nothing else writes the cache.
ReceiveContract ==
    /\ ev.kind = "recv" =>
          IF ev.read = "whole"
          THEN nc.game_state = ev.snap
          ELSE ~nc.connected /\ nc.game_state = ev.cache0 /\ nc.receive_thread = "ended"
    /\ nc.game_state = nc.decoded

\* a read has failed to decode after an earlier snapshot had been cached
ReceiveErrorKeepsCache ==
    ev.kind = "recv" /\ ev.read = "partial" /\ ev.cache0.kind = "snapshot"

\* C20: the latency the client stores on reading a snapshot that answers one
\* of its updates is (receive time - the send_time the client stamped on that
\* update) * 1000: the snapshot's send_time is the client's own stamp, echoed.
PingIsRoundTrip ==
    (ev.kind = "recv" /\ ev.read = "whole" /\ ev.snap.answers > 0) =>
        /\ ev.snap.send_time = ev.stamps[ev.snap.answers]
        /\ nc.ping = (ev.t - ev.stamps[ev.snap.answers]) * 1000

\* A receive loop is in recv on a socket that close() has closed
PendingOnClosed ==
    \/ nc.receive_thread = "running" /\ nc.socket = "closed"
    \/ nc.old_thread = "recv"

\* C21: after NetworkClient.close() connected is False and the socket, if
\* there is one, is closed; close() may be called at any time, before a
\* connect and again after a close; and a receive loop whose socket has been
\* closed eventually ends.
CloseContract ==
    /\ [](ev.kind = "close" => (~nc.connected /\ nc.socket \in {"none", "closed"}))
    /\ (PendingOnClosed ~> ~PendingOnClosed)

\* close() has been called a second time, the first having closed a connection
\* whose receive loop was reading
ClosedTwice ==
    ev.kind = "close" /\ nc.closes = 2 /\ ev.socket0 = "closed" /\ nc.receive_thread = "ended"

\* C29: on a NetworkClient that is closed and connected again, the receive
\* loop of the earlier connection never changes connected once the new
\* connect() has succeeded: when that loop ends, a client that was connected
\* is still connected.
ReconnectKeepsConnection ==
    ev.kind = "old recv" => nc.connected = ev.conn0

\* C22: a health powerup picked up on the server never lowers the player's
\* health and never raises it above the maximum: the health afterwards is
\* min(h + 25, maximum), is at least h and at most the maximum, whatever
\* health the client's update has put in the record.
HealthPickupNeverLowers ==
    ev.kind = "bullet" =>
        \A n \in 1..Len(ev.picks) :
            LET pk == ev.picks[n]
                j == PIndex(pk.pre, pk.by[1])
            IN  pk.type = "health" =>
                   /\ pk.post[j].health = Min(pk.pre[j].health + HealAmount, DefaultMaxHealth)
                   /\ pk.post[j].health >= pk.pre[j].health
                   /\ pk.post[j].health <= DefaultMaxHealth

\* C23: every tick makes the powerup proximity check, also a tick that finds
\* game_state["bullets"] empty: when such a tick has ended (the enemy step
\* left no bullet to resolve, so the state is the one at the start of bullet
\* resolution and at the end of the tick), no powerup is left within the
\* pickup radius of a player.
PickupCheckedEveryTick ==
    (ev.kind = "enemies" /\ ev.bullets = 0) =>
        \A k \in 1..Len(powerups), j \in 1..Len(players) :
            ~Within(powerups[k].pos, players[j].pos, PickupRadius)

\* C24: every snapshot a handler sends is a World State of a tick boundary
\* (with merges on top): none is taken inside a pass of update_game_state,
\* where the enemies have been advanced and bullets of the pass are still to
\* be moved.
SnapshotAtTickBoundary ==
    ev.kind = "send" => ~(ev.rpc = "bullets" /\ ev.bleft > 0)

\* C25: game_state["powerups"] never holds more than 5 entries, whichever
\* way a powerup is added.
PowerupCap ==
    Len(powerups) <= MaxPowerups

\* The positions of a handler between its start and its finally block
ActivePc == {"init", "recv", "send"}

\* C28: while the handler of a connection stays active, no step removes the
\* registry entry that holds its socket, nor the player record that the
\* update it is answering has stored under its identifier.
CleanupSparesOthers ==
    [][\A c \in Conns :
          (hpc[c] \in ActivePc /\ hpc'[c] \in ActivePc) =>
              /\ (hid[c] \in DOMAIN clients /\ clients[hid[c]] = c)
                     => hid[c] \in DOMAIN clients'
              /\ (hpc[c] = "send" /\ hid[c] \in PlayerIds(players))
                     => hid[c] \in PlayerIds(players')]_vars

----------------------------------------------------------------------------
\* The Game of a client in multiplayer mode (play.py:2690-2753)

MaxGameFrames == 2

ShieldSeconds == 10
SpeedSeconds == 5
DamageSeconds == 8

\* Draws of self.new_bullets for a frame: nothing fired, or one shot
GameBullets == {<< >>, << <<40, 50, Right, 1, 30>> >>}

\* play.py:2740-2747
add_xp(g, amount) == LevelCheck([g EXCEPT !.xp = g.xp + amount])

\* play.py:2717-2738
apply_powerup(g, type, t) ==
    CASE type = "health" -> [g EXCEPT !.player_health = Min(g.player_health + HealAmount, g.max_health)]
      [] type = "shield" -> [g EXCEPT !.player_shield = ShieldPowerup, !.shield_end = t + ShieldSeconds]
      [] type = "speed"  -> [g EXCEPT !.speed_end = t + SpeedSeconds]
      [] type = "damage" -> [g EXCEPT !.damage_end = t + DamageSeconds]
      [] type = "xp"     -> add_xp(g, XpPowerup)

\* play.py:2711-2715: the loop over the powerups of the cached snapshot; each
\* one within 25 of the player is applied, in list order
RECURSIVE ApplyCached(_, _, _)
ApplyCached(g, pws, t) ==
    IF pws = << >> THEN g
    ELSE LET pw == Head(pws)
             g1 == IF Within(pw.pos, g.player_pos, PickupRadius)
                   THEN LET a == apply_powerup(g, pw.type, t)
                        IN  [a EXCEPT !.applied = Append(g.applied,
                                 [pid |-> pw.pid,
                                  changed |-> [a EXCEPT !.applied = g.applied] # g])]
                   ELSE g
         IN  ApplyCached(g1, Tail(pws), t)

\* play.py:2694-2705: the update of a frame
PlayerData(g) ==
    [pos |-> g.player_pos, health |-> g.player_health, shield |-> g.player_shield,
     level |-> g.level, xp |-> g.xp, xp_to_next_level |-> g.xp_to_next_level,
     upgrade_points |-> g.upgrade_points, missing |-> {},
     new_bullets |-> g.new_bullets]

\* play.py:2690-2715
update_multiplayer(g, cache, t) ==
    IF ~g.multiplayer_mode THEN g
    ELSE LET g1 == [g EXCEPT !.sent_data = PlayerData(g), !.new_bullets = << >>,
                             !.frames = g.frames + 1]
         IN  IF cache.kind = "world" THEN ApplyCached(g1, cache.powerups, t) ELSE g1

\* play.py:2485-2489, 1661-1669: the host's client has connected
GameJoin ==
    /\ ~game.multiplayer_mode
    /\ game' = [NoGame EXCEPT !.multiplayer_mode = TRUE]
    /\ ev' = NoEv
    /\ UNCHANGED <<srv, now, nc, link>>

\* The player fires between two frames: the shot is queued in self.new_bullets
GameFire ==
    /\ game.multiplayer_mode
    /\ game.new_bullets = << >>
    /\ game.frames < MaxGameFrames
    /\ \E nb \in GameBullets \ {<< >>} : game' = [game EXCEPT !.new_bullets = nb]
    /\ ev' = NoEv
    /\ UNCHANGED <<srv, now, nc, link>>

\* play.py:2993: one frame of the game loop
GameFrame ==
    /\ game.multiplayer_mode
    /\ game.frames < MaxGameFrames
    /\ game' = update_multiplayer(game, nc.game_state, now)
    /\ ev' = [kind |-> "frame", game0 |-> game]
    /\ UNCHANGED <<srv, now, nc, link>>

\* play.py:707, 740, 611-625: a snapshot of the world is sent to the client
\* and its receive thread stores it
GameReceive ==
    /\ game.multiplayer_mode
    /\ nc' = [nc EXCEPT !.game_state = [kind |-> "world", powerups |-> powerups]]
    /\ ev' = NoEv
    /\ UNCHANGED <<srv, now, link, game>>

\* play.py:711-738: the handler of the client's connection merges the update
\* of its last frame
GameUpdateMerged ==
    /\ game.sent_data # [kind |-> "none"]
    /\ HandlerPass(1, game.sent_data)

NextFrames ==
    \/ GameJoin
    \/ GameFire
    \/ GameFrame
    \/ GameReceive
    \/ GameUpdateMerged
    \/ RunTickBegin(TimeSteps, MaxTicks)
    \/ RunEnemies
    \/ RunBullet

SpecFrames == InitCombat /\ [][NextFrames]_vars

\* C26: a client in multiplayer mode leaves pickups to the server: whatever
\* the frames and the snapshots received, one server powerup changes the
\* local player state of the client at most once.
PowerupChangesClientOnce ==
    \A i, j \in 1..Len(game.applied) :
        (i # j /\ game.applied[i].changed /\ game.applied[j].changed)
            => game.applied[i].pid # game.applied[j].pid

----------------------------------------------------------------------------
\* The size of a snapshot (play.py:740) against the client's read (play.py:613)

BUFFER_SIZE == 8192

\* Updates read from one connection in the runs of SpecFlood
MaxFlood == 274

\* The fewest bytes one bullet record (play.py:722-733) adds to
\* pickle.dumps(self.game_state): its keys and its owner are references to
\* strings pickled before (2 bytes each), pos is a list of two numbers (8
\* bytes at least), angle, penetration and damage take 2 bytes at least each,
\* and the dict itself takes 4
BulletBytes == 30

\* A lower bound of len(pickle.dumps(self.game_state)) for a list of bullets
SnapshotBytesAtLeast(bs) == Len(bs) * BulletBytes

\* The update of a frame in which the player, away from the enemies, has fired
FloodPayloads ==
    { [pos |-> Far, health |-> 100, shield |-> 0, level |-> 1, xp |-> 0,
       xp_to_next_level |-> 100, upgrade_points |-> 0, missing |-> {},
       new_bullets |-> << <<100, 100, Right, 1, 10>> >>] }

\* The connection whose client keeps firing
Shooters == {1}

\* A state of the server and of a client that play.py reaches: connection 1
\* is registered and its handler is in its loop, the first tick has run, and
\* the run thread has accepted connection 2, which sends no identifier: the
\* run thread stays in recv (play.py:686) and no tick runs
InitFlood ==
    /\ players = << >>
    /\ enemies \in {EnemyLoop(e, 1, << >>, "normal").enemies : e \in InitEnemies}
    /\ bullets = << >>
    /\ powerups = << >>
    /\ clients = DictSet(<< >>, "p1", 1)
    /\ difficulty = "normal"
    /\ last_powerup_time = 0
    /\ running = TRUE
    /\ now = 1
    /\ ticks = 1
    /\ rpc = "handshake"
    /\ rconn = 2
    /\ bi = 0
    /\ bleft = 0
    /\ iterSize = -1
    /\ sent = [c \in Conns |-> 0]
    /\ ssock = [c \in Conns |-> "open"]
    /\ hpc = [c \in Conns |-> IF c \in Shooters THEN "recv" ELSE "none"]
    /\ hid = [c \in Conns |-> IF c \in Shooters THEN "p1" ELSE ""]
    /\ ev = NoEv
    /\ nextPid = 1
    /\ pwlog = << >>
    /\ merged = [c \in Conns |-> 0]
    /\ closing = NotClosing
    /\ lsock = "open"
    /\ nc = [NoClient EXCEPT !.connected = TRUE, !.socket = "open",
                             !.receive_thread = "running", !.connects = 1]
    /\ link = NoLink
    /\ game = NoGame

\* play.py:611-629: the receive thread reads the snapshot the handler has just
\* sent with one recv(BUFFER_SIZE): a snapshot longer than the buffer comes
\* truncated and pickle.loads raises
SnapshotRead ==
    /\ ev.kind = "send"
    /\ nc.receive_thread = "running"
    /\ LET read == IF SnapshotBytesAtLeast(ev.snapshot) > BUFFER_SIZE THEN "partial" ELSE "whole"
       IN  /\ nc' = Receive(nc, read, Snapshot(sent[ev.conn], now), now)
           /\ ev' = [kind |-> "snapshot read", read |-> read]
    /\ UNCHANGED <<srv, now, link, game>>

NextFlood ==
    \/ \E c \in Shooters, data \in FloodPayloads : HandlerMergeUpTo(c, data, MaxFlood)
    \/ \E c \in Shooters : HandlerSend(c)
    \/ SnapshotRead

SpecFlood == InitFlood /\ [][NextFlood]_vars

\* C27: no snapshot the server writes to a connection is longer than the
\* client's receive buffer.
SnapshotFitsBuffer ==
    /\ ev.kind = "send" => SnapshotBytesAtLeast(ev.snapshot) <= BUFFER_SIZE
    /\ ev.kind = "snapshot read" => nc.connected

\* InitFlood is a state of Spec, up to the history of the client
FloodStartReached ==
    /\ rpc = "handshake" /\ rconn = 2 /\ ticks = 1 /\ now = 1
    /\ clients = DictSet(<< >>, "p1", 1)
    /\ hpc = [c \in Conns |-> IF c \in Shooters THEN "recv" ELSE "none"]
    /\ hid = [c \in Conns |-> IF c \in Shooters THEN "p1" ELSE ""]
    /\ ssock = [c \in Conns |-> "open"]
    /\ enemies \in {EnemyLoop(e, 1, << >>, "normal").enemies : e \in InitEnemies}
    /\ players = << >> /\ bullets = << >> /\ powerups = << >>

\* The enemies of the list ens within their collision radius of position pos
InRange(pos, ens) == {k \in 1..Len(ens) : Within(pos, ens[k].pos, ens[k].size)}

\* The step of a player's bullet that stayed in the field damaged no enemy,
\* or exactly one: the enemies are those before the step but for the one hit
OneEnemyDamaged ==
    (ev.kind = "bullet" /\ ev.b0.owner # "enemy" /\ ~ev.out) =>
        IF ev.hit = 0 THEN enemies = ev.en0
        ELSE /\ ev.hit \in InRange(ev.b.pos, ev.en0)
             /\ ev.b.penetration = ev.b0.penetration - 1
             /\ IF ev.kill
                THEN /\ Len(enemies) = Len(ev.en0)
                     /\ SubSeq(enemies, 1, Len(enemies) - 1) = RemoveAt(ev.en0, ev.hit)
                ELSE enemies = [ev.en0 EXCEPT ![ev.hit].health = @ - ev.b0.damage]

\* The bullet of the last step hit an enemy at its step before, that enemy
\* lives, and the bullet is again within its collision radius
StillInRange ==
    /\ ev.kind = "bullet" /\ ev.b0.owner # "enemy" /\ ~ev.out
    /\ ev.b0.last # 0
    /\ ev.b0.last \in InRange(ev.b.pos, ev.en0)

====
